---------------------------- MODULE Spec2Model ----------------------------
(***************************************************************************)
(* The 3D-model pipeline: the HTTP layer (app/main.py), the Celery task    *)
(* (app/tasks.py) and the stage orchestration (app/pipeline.py).           *)
(*                                                                         *)
(* A job is one upload.  process() admits it, saves it as                  *)
(* <UPLOAD_ROOT>/job_<uuid>/input<suffix> and enqueues run_pipeline_task.  *)
(* A worker takes the message (Celery marks the task STARTED), runs        *)
(* process_model: [convert] -> validate -> repair -> slice -> report, and  *)
(* the result backend records SUCCESS with the returned dict or FAILURE    *)
(* with the exception raised.  get_result and download_slice read the      *)
(* result backend and the file system and change nothing: they are         *)
(* operators over the state, evaluated in every reachable state.           *)
(*                                                                         *)
(* Modelling notes.                                                        *)
(*  - pipeline.py imports PRUSASLICER_BIN, which config.py does not define *)
(*    (it defines BAMBUSTUDIO_BIN); the model takes the slicer binary as   *)
(*    configured, i.e. the module as importable.                           *)
(*  - file.size is the byte count FastAPI's multipart parser sets.         *)
(*  - A stage "timeout" is the task's soft_time_limit raising              *)
(*    SoftTimeLimitExceeded inside the running stage; _run and             *)
(*    subprocess.run pass no timeout of their own.                         *)
(*  - The broker redelivers the message of a job that has succeeded (the   *)
(*    acknowledgement was lost); MaxRedeliver bounds how often.            *)
(*                                                                         *)
(* Specifications.  Spec: the whole system, two uploads, redelivery.       *)
(* FairSpec: its workers under fair scheduling.  SpecAdmit: process()      *)
(* alone, every call observed.  SpecKinds: uploads of every kind up to     *)
(* the validator.  SpecOnce: one delivery per job with every kind of tool  *)
(* output.  SpecRepair: repair statement by statement, on the shared temp  *)
(* directory.  SpecTool: the life of each external tool process.           *)
(***************************************************************************)
EXTENDS Naturals, Sequences, FiniteSets

\* ------------------------------------------------------------------ bounds

\* Redeliveries of task messages by the broker, in total.
MaxRedeliver == 1

\* The uuid4 job ids the model draws from (two uploads).
JobIds == {"j1", "j2"}

\* ------------------------------------------------------- program constants

MAX_FILE_SIZE_MB == 100

SUPPORTED_EXTS == {".obj", ".stl", ".glb", ".gltf", ".3mf"}

\* @celery_app.task(max_retries=3, ...)
max_retries == 3

\* ------------------------------------------------------------------ inputs

\* Upload file names as pathlib sees them: a stem and the last suffix as
\* typed by the client ("" when the name has none, as for the default
\* name "model").
Filenames ==
    { [stem |-> "part",  ext |-> ".stl"],
      [stem |-> "plate", ext |-> ".3MF"],
      [stem |-> "scan",  ext |-> ".step"],
      [stem |-> "model", ext |-> ""] }

\* file.size in bytes: empty, small, exactly the limit, one byte over.
Sizes == {0, 1, MAX_FILE_SIZE_MB * 1024 * 1024, MAX_FILE_SIZE_MB * 1024 * 1024 + 1}

\* str.lower() on the suffixes that occur.
Lower(s) ==
    CASE s = ".STL"  -> ".stl"
      [] s = ".3MF"  -> ".3mf"
      [] s = ".OBJ"  -> ".obj"
      [] s = ".STEP" -> ".step"
      [] OTHER       -> s

\* ------------------------------------------------------------------- paths

\* A path: the directory it lies in (dir, and for a mkdtemp/mktemp name the
\* run that made it), its stem and its suffix.  A directory is the entry
\* with an empty stem.
Path(dir, run, stem, ext) == [dir |-> dir, run |-> run, stem |-> stem, ext |-> ext]

NoPath == Path("none", 0, "", "")

\* work_dir / f"input{suffix}"
RawPath(suffix) == Path("work", 0, "input", suffix)

\* pathlib.Path.with_suffix: the last suffix replaced.
WithSuffix(p, ext) == [p EXCEPT !.ext = ext]

\* pathlib.Path.parent: the directory entry of the directory p lies in.
Parent(p) == Path(p.dir, p.run, "", "")

\* shutil.rmtree(d): the directory and everything in it.
RmTree(fs, d) == { p \in fs : ~(p.dir = d.dir /\ p.run = d.run) }

VARIABLES
    pc,          \* per job: where its task message / its worker is
    suffix,      \* per job: suffix of the saved input file
    state,       \* per job: the task state in the result backend
    result,      \* per job: the task's result / info in the result backend
    files,       \* per job: the paths that exist on disk
    loc,         \* per job: process_model's local variables
    run,         \* per job: how many times the message was taken
    calls,       \* per job: history of stage invocations
    redelivered, \* broker redeliveries so far
    req,         \* the last call of process() and its HTTP status, where observed
    proc,        \* per job: the external tool process its worker started last
    ply_name,    \* per job: the name repair got from tempfile.mktemp
    temp         \* the system temp directory: per name, whose mesh the file holds

vars == <<pc, suffix, state, result, files, loc, run, calls, redelivered, req,
          proc, ply_name, temp>>

\* What only the stepwise views of a stage (SpecTool, SpecRepair) change.
aux == <<proc, ply_name, temp>>

jobvars == <<pc, suffix, state, result, files, loc, run, calls, redelivered>>

\* report: what the returned validate_report is; warnings: the types of the
\* entries of its "warnings" list, in order.
NoResult == [kind |-> "none", slice_path |-> NoPath, report |-> "none",
             warnings |-> <<>>, exc |-> "", msg |-> ""]

NoRequest == [file |-> [stem |-> "", ext |-> ""], size |-> 0, code |-> 0]

\* warnings: the types of the entries of validate_report["warnings"];
\* slicer_log: the slicer's output, as the sequence of its remarks.
NoLocals == [src_path |-> NoPath, cleanup_dir |-> NoPath,
             validate_report |-> "none", warnings |-> <<>>,
             repaired |-> NoPath, slice_path |-> NoPath, slicer_log |-> <<>>]

\* subprocess.Popen: the stage and run that started the process, whether it
\* is alive, and how control came back to the caller.
NoProc == [stage |-> "none", run |-> 0, alive |-> FALSE, status |-> "none"]

\* Names tempfile.mktemp can return for suffix ".ply".
TmpNames == {"tmpaaaa.ply", "tmpbbbb.ply"}

NoName == ""

Nobody == "nobody"

Init ==
    /\ pc = [j \in JobIds |-> "none"]
    /\ suffix = [j \in JobIds |-> ""]
    /\ state = [j \in JobIds |-> "PENDING"]
    /\ result = [j \in JobIds |-> NoResult]
    /\ files = [j \in JobIds |-> {}]
    /\ loc = [j \in JobIds |-> NoLocals]
    /\ run = [j \in JobIds |-> 0]
    /\ calls = [j \in JobIds |-> <<>>]
    /\ redelivered = 0
    /\ req = NoRequest
    /\ proc = [j \in JobIds |-> NoProc]
    /\ ply_name = [j \in JobIds |-> NoName]
    /\ temp = [n \in TmpNames |-> Nobody]

\* ------------------------------------------------------- admission: process

\* MAX_FILE_SIZE_MB * 1024 * 1024
MaxBytes == MAX_FILE_SIZE_MB * 1024 * 1024

\* Variant: the size comparison off by one byte.
TooLargeOffByOne(size) == size # 0 /\ size > MaxBytes + 1

\* `if file.size and file.size > MAX_FILE_SIZE_MB * 1024 * 1024`
TooLarge(size) == size # 0 /\ size > MaxBytes

\* Path(file.filename or "model").suffix.lower()
UploadSuffix(f) == Lower(f.ext)

\* The HTTP status of process() for an upload: 413, 400, or 200 with a task id.
ProcessStatus(f, size) ==
    IF TooLarge(size) THEN 413
    ELSE IF UploadSuffix(f) \notin SUPPORTED_EXTS THEN 400
    ELSE 200

\* uuid.uuid4().hex: an id no job has yet.
FreshIds == { j \in JobIds : pc[j] = "none" }

\* What process() does to the system: nothing when it raises HTTPException,
\* else a fresh work_dir, the saved upload and one task message.
Admit(f, size) ==
    IF ProcessStatus(f, size) # 200
    THEN UNCHANGED jobvars
    ELSE /\ FreshIds # {}
         /\ LET j == CHOOSE i \in FreshIds : TRUE
                s == UploadSuffix(f)
            IN  /\ files' = [files EXCEPT ![j] = {Parent(RawPath(s)), RawPath(s)}]
                /\ suffix' = [suffix EXCEPT ![j] = s]
                /\ pc' = [pc EXCEPT ![j] = "queued"]
         /\ UNCHANGED <<state, result, loc, run, calls, redelivered>>

Process(f, size) == Admit(f, size) /\ UNCHANGED <<req, aux>>

\* The same call with the upload and the status it got recorded.
ProcessObserved(f, size) ==
    /\ Admit(f, size)
    /\ req' = [file |-> f, size |-> size, code |-> ProcessStatus(f, size)]
    /\ UNCHANGED aux

\* ------------------------------------------------------------ result backend

Started == [NoResult EXCEPT !.kind = "started"]

\* Variant: the exception ends the task but no FAILURE is stored.
RaiseLost(j, exc, msg, fs) ==
    /\ files' = [files EXCEPT ![j] = fs]
    /\ loc' = [loc EXCEPT ![j] = NoLocals]
    /\ pc' = [pc EXCEPT ![j] = "done"]
    /\ UNCHANGED <<state, result>>

\* The task raised: Celery stores FAILURE with the exception; nothing in
\* run_pipeline_task retries and nothing in process_model cleans up.
Raise(j, exc, msg, fs) ==
    /\ state' = [state EXCEPT ![j] = "FAILURE"]
    /\ result' = [result EXCEPT ![j] =
                    [NoResult EXCEPT !.kind = "exception", !.exc = exc, !.msg = msg]]
    /\ files' = [files EXCEPT ![j] = fs]
    /\ loc' = [loc EXCEPT ![j] = NoLocals]
    /\ pc' = [pc EXCEPT ![j] = "done"]

\* History: one entry per stage invocation, with the run (delivery) that
\* made it and whether the stage function returned.
Log(j, stage, outcome, ok) ==
    calls' = [calls EXCEPT ![j] =
                Append(@, [stage |-> stage, outcome |-> outcome, run |-> run[j],
                           ok |-> ok])]

\* ------------------------------------------------------------ worker: start

\* Variant: the task is started without the stored result being replaced.
TakeKeepResult(j) ==
    /\ pc[j] = "queued"
    /\ run' = [run EXCEPT ![j] = @ + 1]
    /\ state' = [state EXCEPT ![j] = "STARTED"]
    /\ loc' = [loc EXCEPT ![j] = [NoLocals EXCEPT !.src_path = RawPath(suffix[j])]]
    /\ pc' = [pc EXCEPT ![j] = IF suffix[j] = ".3mf" THEN "convert" ELSE "validate"]
    /\ UNCHANGED <<result, files, suffix, calls, redelivered, req, aux>>

\* A worker receives the message: task_track_started stores STARTED, then
\* run_pipeline_task calls process_model, which checks the suffix and
\* branches on ".3mf".
Take(j) ==
    /\ pc[j] = "queued"
    /\ run' = [run EXCEPT ![j] = @ + 1]
    /\ IF suffix[j] \notin SUPPORTED_EXTS
       THEN Raise(j, "RuntimeError", "Unsupported extension", files[j])
       ELSE /\ state' = [state EXCEPT ![j] = "STARTED"]
            /\ result' = [result EXCEPT ![j] = Started]
            /\ loc' = [loc EXCEPT ![j] = [NoLocals EXCEPT !.src_path = RawPath(suffix[j])]]
            /\ pc' = [pc EXCEPT ![j] = IF suffix[j] = ".3mf" THEN "convert" ELSE "validate"]
            /\ UNCHANGED files
    /\ UNCHANGED <<suffix, calls, redelivered, req, aux>>

\* ------------------------------------------------------------ tool process

\* The stages that run an external tool through subprocess.run; repair
\* works in the worker's own process.
ToolStages == {"convert", "validate", "slice"}

\* The process proc[j] was started by the stage job j is at, in this run.
Current(j) == proc[j].stage = pc[j] /\ proc[j].run = run[j]

\* subprocess.run starts the tool (Popen) and waits in communicate().
Spawn(j) ==
    /\ pc[j] \in ToolStages
    /\ ~Current(j)
    /\ proc' = [proc EXCEPT ![j] = [stage |-> pc[j], run |-> run[j],
                                    alive |-> TRUE, status |-> "running"]]
    /\ UNCHANGED <<jobvars, req, ply_name, temp>>

\* The tool exits by itself and communicate() returns its output.
ToolExits(j) ==
    /\ Current(j) /\ proc[j].status = "running"
    /\ proc' = [proc EXCEPT ![j].alive = FALSE, ![j].status = "returned"]
    /\ UNCHANGED <<jobvars, req, ply_name, temp>>

\* Variant: the exception leaves subprocess.run without the child killed.
SoftLimitLeavesChild(j) ==
    /\ Current(j) /\ proc[j].status = "running"
    /\ proc' = [proc EXCEPT ![j].status = "raised"]
    /\ UNCHANGED <<jobvars, req, ply_name, temp>>

\* soft_time_limit: SoftTimeLimitExceeded is raised in the worker while it
\* waits in communicate(); subprocess.run kills the child and, leaving the
\* Popen context, waits for it before the exception goes on.
SoftLimit(j) ==
    /\ Current(j) /\ proc[j].status = "running"
    /\ proc' = [proc EXCEPT ![j].alive = FALSE, ![j].status = "raised"]
    /\ UNCHANGED <<jobvars, req, ply_name, temp>>

\* time_limit: the pool kills a worker whose task still runs after the
\* soft limit was signalled, and stores FAILURE.  SoftTimeLimitExceeded is
\* raised from a signal handler, which Python runs at once while the worker
\* waits in communicate() and only on return while it is inside a native
\* call; so the task outlives the soft limit only inside repair, where no
\* tool process runs.
HardLimit(j) ==
    /\ pc[j] = "repair"
    /\ Raise(j, "TimeLimitExceeded", "", files[j] \cup {Path("tmp", run[j], "tmp", ".ply")})
    /\ Log(j, "repair", "timeout", FALSE)
    /\ UNCHANGED <<suffix, run, redelivered, req, aux>>

\* Control is back in the stage function: with the exception iff the
\* outcome is the time limit.
Back(j, o) ==
    /\ Current(j)
    /\ proc[j].status \in {"returned", "raised"}
    /\ o = "timeout" <=> proc[j].status = "raised"

\* ---------------------------------------------------------------- stages

\* Variant: a failed conversion is logged and the pipeline goes on with
\* the original file.
ConvertSwallow(j, o) ==
    /\ pc[j] = "convert"
    /\ o \in {"ok", "fail", "timeout"}
    /\ LET tmp_dir == Path("conv", run[j], "", "")
           obj_path == Path("conv", run[j], "converted", ".obj")
       IN  IF o = "ok"
           THEN /\ files' = [files EXCEPT ![j] = @ \cup {tmp_dir, obj_path}]
                /\ loc' = [loc EXCEPT ![j].cleanup_dir = Parent(obj_path),
                                      ![j].src_path = obj_path]
           ELSE /\ files' = [files EXCEPT ![j] = @ \cup {tmp_dir}]
                /\ UNCHANGED loc
    /\ pc' = [pc EXCEPT ![j] = "validate"]
    /\ Log(j, "convert", o, o = "ok")
    /\ UNCHANGED <<state, result, suffix, run, redelivered, req, aux>>

ConvertOutcomes == {"ok", "fail", "timeout"}

\* _convert_3mf_to_obj: mkdtemp, the slicer's --export-obj, the check of
\* the return code and of obj_path.
Convert(j, o) ==
    /\ pc[j] = "convert"
    /\ LET tmp_dir == Path("conv", run[j], "", "")
           obj_path == Path("conv", run[j], "converted", ".obj")
       IN  CASE o = "ok" ->
                 /\ files' = [files EXCEPT ![j] = @ \cup {tmp_dir, obj_path}]
                 /\ loc' = [loc EXCEPT ![j].cleanup_dir = Parent(obj_path),
                                       ![j].src_path = obj_path]
                 /\ pc' = [pc EXCEPT ![j] = "validate"]
                 /\ UNCHANGED <<state, result>>
             [] o = "fail" ->
                 Raise(j, "RuntimeError", "3MF->OBJ conversion failed",
                       files[j] \cup {tmp_dir})
             [] o = "timeout" ->
                 Raise(j, "SoftTimeLimitExceeded", "", files[j] \cup {tmp_dir})
    /\ Log(j, "convert", o, o = "ok")
    /\ UNCHANGED <<suffix, run, redelivered, req, aux>>

\* Variant: the validator script without its glTF importer.
IMPORTERS_NoGltf == {".obj", ".stl", ".glb"}

\* The suffixes app/validate.py has an importer for.
IMPORTERS == {".obj", ".stl", ".glb", ".gltf"}

ValidateOutcomes == {"ok", "nondict", "empty", "notjson", "crash", "timeout"}

\* What the validator may print, over all kinds: besides ValidateOutcomes
\* a report whose "warnings" list has an entry of the validator's own.
AllValidateOutcomes == ValidateOutcomes \cup {"ok_warn"}

\* validate: _run of Blender on the script, then the last line of the output
\* parsed as JSON.  "ok" / "ok_warn": the last line is a JSON object, its
\* "warnings" empty / with one VALIDATION entry; "nondict": it is JSON but
\* no object; "empty" / "notjson": it cannot be found / parsed; "crash": a
\* nonzero return code.
Validate(j, o) ==
    /\ pc[j] = "validate"
    /\ loc[j].src_path.ext \notin IMPORTERS => o = "crash"
    /\ CASE o \in {"ok", "ok_warn", "nondict"} ->
              /\ loc' = [loc EXCEPT
                          ![j].validate_report = IF o = "nondict" THEN "nondict" ELSE "dict",
                          ![j].warnings = IF o = "ok_warn" THEN <<"VALIDATION">> ELSE <<>>]
              /\ pc' = [pc EXCEPT ![j] = "repair"]
              /\ UNCHANGED <<state, result, files>>
         [] o \in {"empty", "notjson"} ->
              Raise(j, "RuntimeError", "Failed to parse Blender output", files[j])
         [] o = "crash" ->
              Raise(j, "RuntimeError", "tool output", files[j])
         [] o = "timeout" ->
              Raise(j, "SoftTimeLimitExceeded", "", files[j])
    /\ Log(j, "validate", o, o \in {"ok", "ok_warn", "nondict"})
    /\ UNCHANGED <<suffix, run, redelivered, req, aux>>

RepairOutcomes == {"ok", "load_fail", "filter_fail", "timeout"}

\* repair: trimesh.load, export to a mktemp .ply, the PyMeshLab filters,
\* save to src_path.with_suffix(".repaired.stl"), unlink of the .ply.
\* "load_fail": trimesh.load raises; "filter_fail": a PyMeshLab call raises
\* after the .ply was written; "timeout": the time limit hits in the filters.
Repair(j, o) ==
    /\ pc[j] = "repair"
    /\ LET tmp_ply == Path("tmp", run[j], "tmp", ".ply")
           repaired_path == WithSuffix(loc[j].src_path, ".repaired.stl")
       IN  CASE o = "ok" ->
                 /\ files' = [files EXCEPT ![j] = (@ \cup {tmp_ply, repaired_path}) \ {tmp_ply}]
                 /\ loc' = [loc EXCEPT ![j].repaired = repaired_path]
                 /\ pc' = [pc EXCEPT ![j] = "slice"]
                 /\ UNCHANGED <<state, result>>
             [] o = "load_fail" ->
                 Raise(j, "LibraryError", "library message", files[j])
             [] o = "filter_fail" ->
                 Raise(j, "LibraryError", "library message", files[j] \cup {tmp_ply})
             [] o = "timeout" ->
                 Raise(j, "SoftTimeLimitExceeded", "", files[j] \cup {tmp_ply})
    /\ Log(j, "repair", o, o = "ok")
    /\ UNCHANGED <<suffix, run, redelivered, req, aux>>

\* repair statement by statement, for workers that run it at the same time
\* (SpecRepair).  The .ply lies in the system temp directory all workers
\* share; tempfile.mktemp returns a name that does not exist there when it
\* is called and creates nothing.

\* trimesh.load, then tempfile.mktemp(suffix=".ply").
RepairLoad(j, o) ==
    /\ pc[j] = "repair"
    /\ CASE o = "ok" ->
              /\ \E n \in TmpNames :
                    /\ temp[n] = Nobody
                    /\ ply_name' = [ply_name EXCEPT ![j] = n]
              /\ pc' = [pc EXCEPT ![j] = "repair_export"]
              /\ UNCHANGED <<state, result, files, loc, calls>>
         [] o = "load_fail" ->
              /\ Raise(j, "LibraryError", "library message", files[j])
              /\ Log(j, "repair", o, FALSE)
              /\ UNCHANGED ply_name
    /\ UNCHANGED <<suffix, run, redelivered, req, proc, temp>>

\* mesh.export(tmp_ply): the file is created or overwritten.
RepairExport(j) ==
    /\ pc[j] = "repair_export"
    /\ temp' = [temp EXCEPT ![ply_name[j]] = j]
    /\ pc' = [pc EXCEPT ![j] = "repair_filter"]
    /\ UNCHANGED <<suffix, state, result, files, loc, run, calls, redelivered, req,
                   proc, ply_name>>

\* ms.load_new_mesh(tmp_ply), the filters, ms.save_current_mesh; loading
\* raises when the file is gone.
RepairFilter(j, o) ==
    /\ pc[j] = "repair_filter"
    /\ temp[ply_name[j]] = Nobody => o = "filter_fail"
    /\ CASE o = "ok" ->
              /\ files' = [files EXCEPT
                            ![j] = @ \cup {WithSuffix(loc[j].src_path, ".repaired.stl")}]
              /\ pc' = [pc EXCEPT ![j] = "repair_unlink"]
              /\ UNCHANGED <<state, result, loc, calls, ply_name>>
         [] o = "filter_fail" ->
              /\ Raise(j, "LibraryError", "library message", files[j])
              /\ Log(j, "repair", o, FALSE)
              /\ ply_name' = [ply_name EXCEPT ![j] = NoName]
         [] o = "timeout" ->
              /\ Raise(j, "SoftTimeLimitExceeded", "", files[j])
              /\ Log(j, "repair", o, FALSE)
              /\ ply_name' = [ply_name EXCEPT ![j] = NoName]
    /\ UNCHANGED <<suffix, run, redelivered, req, proc, temp>>

\* tmp_ply.unlink(missing_ok=True); return repaired_path.
RepairUnlink(j) ==
    /\ pc[j] = "repair_unlink"
    /\ temp' = [temp EXCEPT ![ply_name[j]] = Nobody]
    /\ ply_name' = [ply_name EXCEPT ![j] = NoName]
    /\ loc' = [loc EXCEPT ![j].repaired = WithSuffix(loc[j].src_path, ".repaired.stl")]
    /\ pc' = [pc EXCEPT ![j] = "slice"]
    /\ Log(j, "repair", "ok", TRUE)
    /\ UNCHANGED <<suffix, state, result, files, run, redelivered, req, proc>>

SliceOutcomes == {"gcode", "other", "nothing", "crash", "timeout"}

\* output_dir.iterdir()
Produced(fs, output_dir) ==
    { p \in fs : p.dir = output_dir.dir /\ p.run = output_dir.run /\ p.stem # "" }

\* What the slicer may leave, over all kinds: besides SliceOutcomes a
\* .bgcode, a .3mf project file together with a .bgcode, and a .gcode with
\* the adhesion remark once or twice in the log.
AllSliceOutcomes ==
    SliceOutcomes \cup {"bgcode", "both", "gcode_adhesion", "gcode_adhesion2"}

\* How often the slicer's output says "Low bed adhesion".
Occurrences(o) ==
    CASE o = "gcode_adhesion"  -> 1
      [] o = "gcode_adhesion2" -> 2
      [] OTHER                 -> 0

\* The slicer's output for an outcome.
SlicerLog(o) == [i \in 1..Occurrences(o) |-> "Low bed adhesion"]

\* Variant: the first file found is returned whatever its suffix.
ChosenAny(produced) == produced

\* The loop over `produced`: the first file whose lower-cased suffix is
\* .gcode or .bgcode, else produced[0].  iterdir() lists in no fixed
\* order, so "the first" is any of them.
Chosen(produced) ==
    LET gcodes == { p \in produced : Lower(p.ext) \in {".gcode", ".bgcode"} }
    IN  IF gcodes # {} THEN gcodes ELSE produced

\* slice_model: mkdir of <job_root>/sliced, _run of the slicer, then the
\* choice among the files found there.  "gcode" / "bgcode" / "other": the
\* slicer wrote a .gcode / a .bgcode / only a .3mf; "both": a .3mf and a
\* .bgcode; "nothing": it wrote no file and returned 0.
Slice(j, o) ==
    /\ pc[j] = "slice"
    /\ LET output_dir == Path("sliced", 0, "", "")
           made == files[j] \cup {output_dir}
           written == CASE o \in {"gcode", "gcode_adhesion", "gcode_adhesion2"} ->
                               {Path("sliced", 0, "out", ".gcode")}
                        [] o = "bgcode" -> {Path("sliced", 0, "out", ".bgcode")}
                        [] o = "other" -> {Path("sliced", 0, "out", ".3mf")}
                        [] o = "both" -> {Path("sliced", 0, "out", ".3mf"),
                                          Path("sliced", 0, "out", ".bgcode")}
                        [] OTHER -> {}
           after == made \cup written
           produced == Produced(after, output_dir)
       IN  CASE o = "crash" -> Raise(j, "RuntimeError", "tool output", made)
             [] o = "timeout" -> Raise(j, "SoftTimeLimitExceeded", "", made)
             [] OTHER ->
                 IF produced = {}
                 THEN Raise(j, "RuntimeError", "Slicer produced no output files", after)
                 ELSE /\ \E f \in Chosen(produced) :
                            loc' = [loc EXCEPT ![j].slice_path = f,
                                               ![j].slicer_log = SlicerLog(o)]
                      /\ files' = [files EXCEPT ![j] = after]
                      /\ pc' = [pc EXCEPT ![j] = "report"]
                      /\ UNCHANGED <<state, result>>
    /\ Log(j, "slice", o, pc'[j] = "report")
    /\ UNCHANGED <<suffix, run, redelivered, req, aux>>

\* The cleanup at the end of process_model.
Cleanup(fs, cleanup_dir) ==
    IF cleanup_dir # NoPath /\ cleanup_dir \in fs THEN RmTree(fs, cleanup_dir) ELSE fs

\* `"Low bed adhesion" in slicer_log`
Mentions(log, remark) == \E i \in DOMAIN log : log[i] = remark

\* Variant: one advisory per occurrence of the remark.
WithAdvisoryEach(warnings, log) ==
    warnings \o [i \in 1..Len(SelectSeq(log, LAMBDA r : r = "Low bed adhesion")) |-> "SLICING"]

\* The "warnings" list after lines 153-159: one SLICING entry appended if
\* the log has the remark.
WithAdvisory(warnings, log) ==
    IF Mentions(log, "Low bed adhesion") THEN Append(warnings, "SLICING") ELSE warnings

\* process_model after the stages: the report gets slicing_status (a
\* TypeError when the validator's JSON was no object) and the advisory, the
\* conversion directory is removed, the dict is returned and Celery stores
\* SUCCESS.
Finish(j) ==
    /\ pc[j] = "report"
    /\ IF loc[j].validate_report # "dict"
       THEN Raise(j, "TypeError", "item assignment", files[j])
       ELSE /\ files' = [files EXCEPT ![j] = Cleanup(@, loc[j].cleanup_dir)]
            /\ state' = [state EXCEPT ![j] = "SUCCESS"]
            /\ result' = [result EXCEPT ![j] =
                            [NoResult EXCEPT !.kind = "return",
                                             !.slice_path = loc[j].slice_path,
                                             !.report = "dict",
                                             !.warnings = WithAdvisory(loc[j].warnings,
                                                                       loc[j].slicer_log)]]
            /\ loc' = [loc EXCEPT ![j] = NoLocals]
            /\ pc' = [pc EXCEPT ![j] = "done"]
    /\ UNCHANGED <<suffix, run, calls, redelivered, req, aux>>

\* ------------------------------------------------------------ environment

\* acks_late=True: the message is acknowledged only after the task ran, so
\* a worker lost after storing the result and before the acknowledgement
\* makes the broker deliver the message again.
Redeliver(j) ==
    /\ pc[j] = "done"
    /\ state[j] = "SUCCESS"
    /\ redelivered < MaxRedeliver
    /\ pc' = [pc EXCEPT ![j] = "queued"]
    /\ redelivered' = redelivered + 1
    /\ UNCHANGED <<suffix, state, result, files, loc, run, calls, req, aux>>

\* Files under UPLOAD_ROOT (default /tmp) are reclaimed from outside: the
\* output of a finished job is purged.
Expire(j) ==
    /\ pc[j] = "done"
    /\ state[j] = "SUCCESS"
    /\ result[j].slice_path \in files[j]
    /\ files' = [files EXCEPT ![j] = @ \ {result[j].slice_path}]
    /\ UNCHANGED <<pc, suffix, state, result, loc, run, calls, redelivered, req, aux>>

Worker(j) ==
    \/ Take(j)
    \/ \E o \in ConvertOutcomes : Convert(j, o)
    \/ \E o \in ValidateOutcomes : Validate(j, o)
    \/ \E o \in RepairOutcomes : Repair(j, o)
    \/ \E o \in SliceOutcomes : Slice(j, o)
    \/ Finish(j)

Next ==
    \/ \E f \in Filenames, size \in Sizes : Process(f, size)
    \/ \E j \in JobIds : Take(j)
    \/ \E j \in JobIds, o \in ConvertOutcomes : Convert(j, o)
    \/ \E j \in JobIds, o \in ValidateOutcomes : Validate(j, o)
    \/ \E j \in JobIds, o \in RepairOutcomes : Repair(j, o)
    \/ \E j \in JobIds, o \in SliceOutcomes : Slice(j, o)
    \/ \E j \in JobIds : Finish(j)
    \/ \E j \in JobIds : Redeliver(j)
    \/ \E j \in JobIds : Expire(j)

Spec == Init /\ [][Next]_vars

\* Under SpecAdmit the admission handler alone, with every call observed,
\* over upload names of every supported kind.
AllFilenames ==
    Filenames \cup
    { [stem |-> "body",  ext |-> ".OBJ"],
      [stem |-> "scene", ext |-> ".glb"],
      [stem |-> "scene", ext |-> ".gltf"] }

NextAdmit == \E f \in AllFilenames, size \in Sizes : ProcessObserved(f, size)

SpecAdmit == Init /\ [][NextAdmit]_vars

\* Under SpecKinds uploads of every kind, followed up to the validator.
NextKinds ==
    \/ \E f \in AllFilenames, size \in Sizes : Process(f, size)
    \/ \E j \in JobIds : Take(j)
    \/ \E j \in JobIds, o \in ConvertOutcomes : Convert(j, o)
    \/ \E j \in JobIds, o \in ValidateOutcomes : Validate(j, o)

SpecKinds == Init /\ [][NextKinds]_vars

\* Under SpecOnce one delivery per job, with every kind of tool output.
NextOnce ==
    \/ \E f \in Filenames, size \in Sizes : Process(f, size)
    \/ \E j \in JobIds : Take(j)
    \/ \E j \in JobIds, o \in ConvertOutcomes : Convert(j, o)
    \/ \E j \in JobIds, o \in AllValidateOutcomes : Validate(j, o)
    \/ \E j \in JobIds, o \in RepairOutcomes : Repair(j, o)
    \/ \E j \in JobIds, o \in AllSliceOutcomes : Slice(j, o)
    \/ \E j \in JobIds : Finish(j)

SpecOnce == Init /\ [][NextOnce]_vars

\* Under SpecRepair the jobs up to the end of repair, with repair taken
\* statement by statement.
NextRepair ==
    \/ \E f \in Filenames, size \in Sizes : Process(f, size)
    \/ \E j \in JobIds : Take(j)
    \/ \E j \in JobIds, o \in ConvertOutcomes : Convert(j, o)
    \/ \E j \in JobIds, o \in ValidateOutcomes : Validate(j, o)
    \/ \E j \in JobIds, o \in {"ok", "load_fail"} : RepairLoad(j, o)
    \/ \E j \in JobIds : RepairExport(j)
    \/ \E j \in JobIds, o \in {"ok", "filter_fail", "timeout"} : RepairFilter(j, o)
    \/ \E j \in JobIds : RepairUnlink(j)

SpecRepair == Init /\ [][NextRepair]_vars

\* Under SpecTool one delivery per job, with the life of each tool process:
\* a tool stage goes on once subprocess.run has handed control back.
NextTool ==
    \/ \E f \in Filenames, size \in Sizes : Process(f, size)
    \/ \E j \in JobIds : Take(j)
    \/ \E j \in JobIds : Spawn(j)
    \/ \E j \in JobIds : ToolExits(j)
    \/ \E j \in JobIds : SoftLimit(j)
    \/ \E j \in JobIds, o \in ConvertOutcomes : Back(j, o) /\ Convert(j, o)
    \/ \E j \in JobIds, o \in ValidateOutcomes : Back(j, o) /\ Validate(j, o)
    \/ \E j \in JobIds, o \in RepairOutcomes : Repair(j, o)
    \/ \E j \in JobIds : HardLimit(j)
    \/ \E j \in JobIds, o \in SliceOutcomes : Back(j, o) /\ Slice(j, o)
    \/ \E j \in JobIds : Finish(j)

SpecTool == Init /\ [][NextTool]_vars

\* The steps of the clients, the broker and the workers.  The purge of
\* outputs from outside (Expire) is left out: it touches only a file of a
\* finished job and no guard of a worker step reads the files.
NextWork ==
    \/ \E f \in Filenames, size \in Sizes : Process(f, size)
    \/ \E j \in JobIds : Take(j)
    \/ \E j \in JobIds, o \in ConvertOutcomes : Convert(j, o)
    \/ \E j \in JobIds, o \in ValidateOutcomes : Validate(j, o)
    \/ \E j \in JobIds, o \in RepairOutcomes : Repair(j, o)
    \/ \E j \in JobIds, o \in SliceOutcomes : Slice(j, o)
    \/ \E j \in JobIds : Finish(j)
    \/ \E j \in JobIds : Redeliver(j)

\* The worker pool runs every task it was delivered and every stage
\* invocation returns (a result, a nonzero exit or the time limit).
FairSpec == Init /\ [][NextWork]_vars /\ \A j \in JobIds : WF_vars(Worker(j))

\* ---------------------------------------------------- status and download

\* A value of a JSON body: None, a task state, the validate report, a path,
\* the STARTED meta, or the text of an exception.
Val(kind, path, text) == [kind |-> kind, path |-> path, text |-> text]

None == Val("None", NoPath, "")

\* The dict process_model returns has the keys slice_path, validate_report.
DictGet(r, key) ==
    CASE key = "slice_path"      -> Val("path", r.slice_path, "")
      [] key = "validate_report" -> Val("report", NoPath, r.report)
      [] OTHER                   -> None

\* res.info of a task that has not finished: None while PENDING, the
\* worker's meta once STARTED.
Info(r) == IF r.kind = "started" THEN Val("meta", NoPath, "") ELSE None

\* get_result: the status code and the JSON body.
get_result(j) ==
    IF state[j] = "SUCCESS"
    THEN [code |-> 200,
          body |-> [state |-> Val("state", NoPath, state[j]),
                    validate_log |-> DictGet(result[j], "validate_log"),
                    slicer_log |-> DictGet(result[j], "slicer_log"),
                    progress |-> None, error |-> None],
          keys |-> {"state", "validate_log", "slicer_log"}]
    ELSE IF state[j] \in {"PENDING", "STARTED"}
    THEN [code |-> 200,
          body |-> [state |-> Val("state", NoPath, state[j]), validate_log |-> None, slicer_log |-> None,
                    progress |-> Info(result[j]), error |-> None],
          keys |-> {"state", "progress"}]
    ELSE [code |-> 400,
          body |-> [state |-> Val("state", NoPath, state[j]), validate_log |-> None, slicer_log |-> None,
                    progress |-> None,
                    error |-> Val("exception", NoPath, result[j].msg)],
          keys |-> {"state", "error"}]

\* Variant: the file is served without the check that it still exists.
download_slice_unchecked(j) ==
    IF state[j] # "SUCCESS"
    THEN [code |-> 404, file |-> NoPath]
    ELSE [code |-> 200, file |-> result[j].slice_path]

\* download_slice: 404 unless SUCCESS, 410 when the file is gone, else the file.
download_slice(j) ==
    IF state[j] # "SUCCESS"
    THEN [code |-> 404, file |-> NoPath]
    ELSE IF result[j].slice_path \notin files[j]
    THEN [code |-> 410, file |-> NoPath]
    ELSE [code |-> 200, file |-> result[j].slice_path]

\* ------------------------------------------------------------------ claims

\* The pipeline of a job, in declaration order: conversion first for .3mf.
Pipeline(sfx) ==
    IF sfx = ".3mf" THEN <<"convert", "validate", "repair", "slice">>
    ELSE <<"validate", "repair", "slice">>

Last(q) == q[Len(q)]

\* The invocations of stage st in run r of job j.
Invocations(j, st, r) ==
    { i \in DOMAIN calls[j] : calls[j][i].stage = st /\ calls[j][i].run = r }

\* Artifacts that are intermediate only: the conversion directory and what
\* lies in it, the temporary .ply, the repaired mesh.
Intermediate(p) == p.dir \in {"conv", "tmp"} \/ p.ext = ".repaired.stl"

\* C1: a stage that fails with a timeout on every invocation is invoked
\* exactly max_retries + 1 times, and the job then ends FAILED.
C1_RetryBound ==
    \A j \in JobIds :
        (state[j] = "FAILURE" /\ result[j].exc = "SoftTimeLimitExceeded")
        => Cardinality(Invocations(j, Last(calls[j]).stage, Last(calls[j]).run))
               = max_retries + 1

\* C2: once a job is SUCCEEDED, a redelivered task message runs no stage
\* again and leaves the recorded result and output as they were.  (Only the
\* message of a succeeded job is redelivered here, so every run after the
\* first is such a redelivery.)
C2_RedeliveryIdempotent ==
    \A j \in JobIds :
        /\ \A i \in DOMAIN calls[j] : calls[j][i].run = 1
        /\ run[j] > 1 => (state[j] = "SUCCESS" /\ result[j].kind = "return")

\* C3: whenever a job is FAILED, every intermediate-only artifact it made
\* is gone and the uploaded input file still exists.
C3_CleanupOnFailure ==
    \A j \in JobIds :
        state[j] = "FAILURE"
        => /\ \A p \in files[j] : ~Intermediate(p)
           /\ RawPath(suffix[j]) \in files[j]

\* The entry before entry i of job j in the same run, if any.
HasPrev(j, i) == i > 1 /\ calls[j][i - 1].run = calls[j][i].run

\* Position of stage st in a pipeline q (0 when it is not in it).
Index(q, st) == IF \E k \in DOMAIN q : q[k] = st
                THEN CHOOSE k \in DOMAIN q : q[k] = st ELSE 0

\* C4: within a run a stage starts only after the preceding stage of the
\* job's pipeline has succeeded (the first stage starts the run); after a
\* failed stage no later stage is invoked and the job is FAILED.
C4_StageOrder ==
    \A j \in JobIds : \A i \in DOMAIN calls[j] :
        LET e == calls[j][i]
            q == Pipeline(suffix[j])
        IN  /\ Index(q, e.stage) > 0
            /\ ~HasPrev(j, i) => Index(q, e.stage) = 1
            /\ HasPrev(j, i) => /\ calls[j][i - 1].ok
                                /\ Index(q, e.stage) = Index(q, calls[j][i - 1].stage) + 1
            /\ ~e.ok => (i = Len(calls[j]) /\ state[j] = "FAILURE")

\* A .3mf job whose conversion failed: FAILED with conversion its only stage.
C4_Witness ==
    \E j \in JobIds :
        /\ suffix[j] = ".3mf" /\ state[j] = "FAILURE"
        /\ Len(calls[j]) = 1 /\ calls[j][1].stage = "convert" /\ ~calls[j][1].ok

\* C5: SUCCEEDED has the output reference and no error; FAILED has an error
\* and no output reference; PENDING and RUNNING have neither.
C5_OutputXorError ==
    \A j \in JobIds :
        LET output == result[j].slice_path # NoPath
            error == result[j].kind = "exception"
        IN  /\ state[j] \in {"PENDING", "STARTED", "SUCCESS", "FAILURE"}
            /\ state[j] = "SUCCESS" => (output /\ ~error)
            /\ state[j] = "FAILURE" => (error /\ ~output)
            /\ state[j] \in {"PENDING", "STARTED"} => (~output /\ ~error)

\* A job taken again after it had succeeded: RUNNING, beside a FAILED one.
C5_Witness ==
    /\ \E j \in JobIds : state[j] = "STARTED" /\ run[j] = 2
    /\ \E j \in JobIds : state[j] = "FAILURE"

\* What a response body carries: the values under the keys it has.
Carried(r) == { r.body[k] : k \in r.keys }

\* C6: get_result answers in one of four shapes; the answer for a SUCCEEDED
\* job carries the output reference and the stage log process_model
\* returned; only a FAILED job gets the failed-with-cause answer.
C6_StatusShapes ==
    \A j \in JobIds :
        LET r == get_result(j)
        IN  /\ state[j] = "SUCCESS" =>
                  /\ Val("path", result[j].slice_path, "") \in Carried(r)
                  /\ Val("report", NoPath, result[j].report) \in Carried(r)
            /\ "error" \in r.keys <=> state[j] = "FAILURE"
            /\ state[j] = "PENDING" => (r.keys = {"state", "progress"} /\ r.body.progress = None)
            /\ state[j] = "STARTED" => r.keys = {"state", "progress"}

\* An upload the admission call must reject: its suffix (compared in lower
\* case) is not a supported one, or it is larger than the limit.
BadUpload(f, size) == Lower(f.ext) \notin SUPPORTED_EXTS \/ size > MaxBytes

\* C7: process() answers every upload with an unsupported suffix or a size
\* over the limit with a rejection, and such a call creates no job: no
\* directory, no file, no task message.
C7_AdmissionRejects ==
    [][ BadUpload(req'.file, req'.size)
        => (req'.code \in {400, 413} /\ UNCHANGED jobvars) ]_vars

\* An oversize or unsupported upload, rejected after a job had been
\* admitted.
C7_Witness ==
    /\ BadUpload(req.file, req.size)
    /\ req.code \in {400, 413}
    /\ \E j \in JobIds : pc[j] = "queued"

\* C8: download_slice serves a file only for a SUCCEEDED job whose output
\* file exists, answers 410 for a SUCCEEDED job whose file is gone and 404
\* in every other state.
C8_DownloadGuard ==
    \A j \in JobIds :
        LET r == download_slice(j)
        IN  /\ r.code \in {200, 404, 410}
            /\ r.code = 200 => (state[j] = "SUCCESS" /\ r.file = result[j].slice_path
                                /\ r.file \in files[j])
            /\ (state[j] = "SUCCESS" /\ result[j].slice_path \notin files[j]) => r.code = 410
            /\ state[j] # "SUCCESS" => r.code = 404

\* A SUCCEEDED job whose output was purged, answered 410, beside a job that
\* is not SUCCEEDED, answered 404.
C8_Witness ==
    /\ \E j \in JobIds : state[j] = "SUCCESS" /\ download_slice(j).code = 410
    /\ \E j \in JobIds : state[j] = "FAILURE" /\ download_slice(j).code = 404

Terminal(j) == pc[j] = "done" /\ state[j] \in {"SUCCESS", "FAILURE"}

\* C9: under fair scheduling of the worker every submitted job, of either
\* pipeline kind, reaches SUCCEEDED or FAILED.
C9_Terminates == \A j \in JobIds : (pc[j] = "queued") ~> Terminal(j)

\* Both kinds of job have reached a terminal state, one of them after a
\* second delivery.
C9_Witness ==
    /\ \E j \in JobIds : suffix[j] = ".3mf" /\ Terminal(j) /\ run[j] = 2
    /\ \E j \in JobIds : suffix[j] = ".stl" /\ Terminal(j)

\* The stages a job has run, in the order it ran them.
StagesRun(j) == [i \in DOMAIN calls[j] |-> calls[j][i].stage]

\* C10: a SUCCEEDED job has run every stage of its pipeline exactly once, in
\* declaration order (conversion first iff the input is a .3mf), and its
\* output reference is the slice stage's output.
C10_SucceededRanOnce ==
    \A j \in JobIds :
        state[j] = "SUCCESS"
        => /\ StagesRun(j) = Pipeline(suffix[j])
           /\ result[j].slice_path.dir = "sliced" /\ result[j].slice_path.stem # ""

\* The state a status query shows for job j.
Shown(j) == get_result(j).body.state.text

\* C11: a job becomes RUNNING (STARTED) once, from PENDING, when a worker
\* takes its task; from then on status queries show RUNNING until the
\* terminal state; the state never returns to PENDING and a terminal state
\* is never left, however often the message is delivered.
C11_RunningOnce ==
    [][ \A j \in JobIds :
          /\ (Shown(j) # "STARTED" /\ Shown(j)' = "STARTED")
                => (Shown(j) = "PENDING" /\ pc[j] = "queued" /\ run[j] = 0)
          /\ Shown(j) = "STARTED" => Shown(j)' \in {"STARTED", "SUCCESS", "FAILURE"}
          /\ Shown(j) # "PENDING" => Shown(j)' # "PENDING"
          /\ Shown(j) \in {"SUCCESS", "FAILURE"} => Shown(j)' = Shown(j) ]_vars

\* The stage an error text names, "none" when it names no stage.  The text
\* of a nonzero exit is the tool's own output, that of a library or Celery
\* exception is the library's.
StageNamed(msg) ==
    CASE msg = "3MF->OBJ conversion failed"      -> "convert"
      [] msg = "Failed to parse Blender output"  -> "validate"
      [] msg = "Slicer produced no output files" -> "slice"
      [] OTHER                                   -> "none"

\* C13: when a stage failure ends a job, the error a status query shows
\* names the stage that failed and is an error the pipeline raised itself,
\* not an exception of a library or of the task runtime.
C13_ErrorNamesStage ==
    \A j \in JobIds :
        (state[j] = "FAILURE" /\ calls[j] # <<>> /\ ~Last(calls[j]).ok)
        => /\ StageNamed(get_result(j).body.error.text) = Last(calls[j]).stage
           /\ result[j].exc = "RuntimeError"

\* C14: validator output whose last line cannot be found, is no JSON, or is
\* JSON but no object makes validate fail with the pipeline's own error;
\* no job ends with a raw type error from using the report.
C14_ValidatorOutputTyped ==
    \A j \in JobIds :
        /\ \A i \in DOMAIN calls[j] :
              (calls[j][i].stage = "validate"
                  /\ calls[j][i].outcome \in {"empty", "notjson", "nondict"})
              => ~calls[j][i].ok
        /\ result[j].exc # "TypeError"

\* C15: at the step that makes a job terminal its uploaded input still
\* exists; if the job is SUCCEEDED the file at slice_path exists, lies in
\* no directory the cleanup removes, and no intermediate artifact (the
\* conversion directory and its content, the repaired mesh, the temporary
\* mesh) is left.
C15_CleanupKeepsEnds ==
    [][ \A j \in JobIds :
          (~Terminal(j) /\ Terminal(j)')
          => /\ RawPath(suffix[j]) \in files'[j]
             /\ state'[j] = "SUCCESS"
                  => /\ result'[j].slice_path \in files'[j]
                     /\ ~Intermediate(result'[j].slice_path)
                     /\ \A p \in files'[j] : ~Intermediate(p) ]_vars

\* C18: a job the admission call created has a suffix process_model
\* accepts, and the file handed to the validator has a suffix the validator
\* script has an importer for (a .3mf only as the converted .obj): no job
\* fails with "Unsupported extension" and none reaches the validator's
\* "Unsupported file type" exit.
C18_AdmittedKindsSupported ==
    \A j \in JobIds :
        /\ pc[j] # "none" => suffix[j] \in SUPPORTED_EXTS
        /\ result[j].msg # "Unsupported extension"
        /\ pc[j] = "validate" => loc[j].src_path.ext \in IMPORTERS
        /\ \A i \in DOMAIN calls[j] :
              calls[j][i].stage = "validate" =>
                  (suffix[j] \in IMPORTERS \/ (suffix[j] = ".3mf" /\ HasPrev(j, i)))

\* A .3mf job whose converted .obj went through the validator, beside a
\* .gltf job at the validator.
C18_Witness ==
    /\ \E j \in JobIds :
          /\ suffix[j] = ".3mf" /\ pc[j] = "repair"
          /\ loc[j].src_path.ext = ".obj"
    /\ \E j \in JobIds : suffix[j] = ".gltf" /\ pc[j] = "validate"

\* <job_root>/sliced of a job
SlicedDir == Path("sliced", 0, "", "")

GcodeLike(p) == Lower(p.ext) \in {".gcode", ".bgcode"}

\* C19: after the slicer ran, slice_model returns a file of the job's
\* sliced directory: one with suffix .gcode or .bgcode if the directory
\* holds any, else a file found there; it fails with "Slicer produced no
\* output files" exactly when the directory is empty.
C19_SliceChoice ==
    \A j \in JobIds :
        LET produced == Produced(files[j], SlicedDir)
            ran == /\ calls[j] # <<>> /\ Last(calls[j]).stage = "slice"
                   /\ Last(calls[j]).outcome \notin {"crash", "timeout"}
        IN  /\ pc[j] = "report"
                => /\ loc[j].slice_path \in produced
                   /\ (\E p \in produced : GcodeLike(p)) => GcodeLike(loc[j].slice_path)
            /\ (ran /\ pc[j] \in {"report", "done"} /\ state[j] # "SUCCESS")
                => (produced = {} <=> result[j].msg = "Slicer produced no output files")
            /\ result[j].msg = "Slicer produced no output files" => (ran /\ produced = {})

\* The slicer left a .3mf and a .bgcode and the .bgcode was returned, beside
\* a job whose slicer left nothing.
C19_Witness ==
    /\ \E j \in JobIds :
          /\ pc[j] = "report" /\ loc[j].slice_path.ext = ".bgcode"
          /\ Path("sliced", 0, "out", ".3mf") \in files[j]
    /\ \E j \in JobIds : result[j].msg = "Slicer produced no output files"

\* How many advisories of the slicing stage a list of warnings holds.
Advisories(warnings) == Len(SelectSeq(warnings, LAMBDA t : t = "SLICING"))

\* C12: the report of a SUCCEEDED job holds exactly one SLICING advisory if
\* the slicer's log has "Low bed adhesion", however often, and none if it
\* has not.
C12_OneAdvisory ==
    \A j \in JobIds :
        state[j] = "SUCCESS"
        => Advisories(result[j].warnings)
              = (IF Occurrences(Last(calls[j]).outcome) > 0 THEN 1 ELSE 0)

\* A job whose slicer log had the remark twice and whose validator had a
\* warning of its own, beside a job whose log had no remark.
C12_Witness ==
    /\ \E j \in JobIds :
          /\ state[j] = "SUCCESS" /\ Last(calls[j]).outcome = "gcode_adhesion2"
          /\ result[j].warnings = <<"VALIDATION", "SLICING">>
    /\ \E j \in JobIds :
          /\ state[j] = "SUCCESS" /\ Last(calls[j]).outcome = "gcode"
          /\ result[j].warnings = <<>>

\* C16: what a job creates, writes or deletes no other job touches.  The
\* working directory, the mkdtemp conversion directory and what lies in
\* them (repaired mesh, slice output) are per job by construction; the
\* temporary mesh lies in the shared temp directory: from a job's export
\* to its unlink the file at its tmp_ply is the one this job wrote.
C16_PathsDisjoint ==
    \A j \in JobIds :
        pc[j] \in {"repair_filter", "repair_unlink"} => temp[ply_name[j]] = j

=============================================================================
